---- MODULE Spec2Model ----
(***************************************************************************)
(* Model of src/src/runtime.rs: the Runtime session object (variables,     *)
(* variable_types), the REPL loop run_repl, the per-fragment pipeline      *)
(* process_input and the bytecode interpreter execute_bytecode.            *)
(*                                                                         *)
(* Text is a sequence of one-character strings.  A number is an exact      *)
(* rational n/d in lowest terms (d > 0); d = 0 encodes the non-finite      *)
(* doubles (n = 1: inf, n = -1: -inf, n = 0: NaN).                         *)
(***************************************************************************)
EXTENDS Integers, Sequences, FiniteSets, TLC

\* ------------------------------------------------------------------ bounds
\* longest bytecode sequence a fragment compiles to
MaxLen == 3
\* fragments submitted to process_input in one session
MaxFragments == 2
\* instructions dispatched by one execute_bytecode call (cuts endless loops)
MaxSteps == 6
\* physical lines accumulated in the REPL buffer
MaxLines == 2
\* characters of a text handed to preprocess_input on its own
MaxChars == 4

\* ------------------------------------------------------------------- text
NL == "\n"
BS == "\\"
SP == " "

IsSpace(c) == c \in {SP, NL}

RECURSIVE TrimEnd(_)
\* str::trim_end: drop trailing whitespace
TrimEnd(s) ==
    IF s = <<>> THEN <<>>
    ELSE IF IsSpace(s[Len(s)]) THEN TrimEnd(SubSeq(s, 1, Len(s) - 1))
    ELSE s

RECURSIVE TrimStart(_)
TrimStart(s) ==
    IF s = <<>> THEN <<>>
    ELSE IF IsSpace(s[1]) THEN TrimStart(Tail(s))
    ELSE s

\* str::trim
Trim(s) == TrimStart(TrimEnd(s))

\* str::ends_with('\\')
EndsWithBackslash(s) == s # <<>> /\ s[Len(s)] = BS

RECURSIVE SplitLines(_, _)
\* str::lines: split at "\n"; a final line needs no terminator and an empty
\* remainder after the last "\n" is no line
SplitLines(s, cur) ==
    IF s = <<>> THEN (IF cur = <<>> THEN <<>> ELSE <<cur>>)
    ELSE IF s[1] = NL THEN <<cur>> \o SplitLines(Tail(s), <<>>)
    ELSE SplitLines(Tail(s), Append(cur, s[1]))

TextLines(s) == SplitLines(s, <<>>)

RECURSIVE JoinLinesNewlineEach(_)
\* JoinLines without the peek: the last line gets its newline too
JoinLinesNewlineEach(ls) ==
    IF ls = <<>> THEN <<>>
    ELSE LET trimmed == TrimEnd(ls[1])
         IN  IF EndsWithBackslash(trimmed)
             THEN SubSeq(trimmed, 1, Len(trimmed) - 1) \o <<SP>>
                  \o JoinLinesNewlineEach(Tail(ls))
             ELSE trimmed \o <<NL>> \o JoinLinesNewlineEach(Tail(ls))

RECURSIVE JoinLines(_)
\* the loop of preprocess_input over the physical lines
JoinLines(ls) ==
    IF ls = <<>> THEN <<>>
    ELSE LET trimmed == TrimEnd(ls[1])
         IN  IF EndsWithBackslash(trimmed)
             THEN SubSeq(trimmed, 1, Len(trimmed) - 1) \o <<SP>> \o JoinLines(Tail(ls))
             ELSE trimmed \o (IF Len(ls) > 1 THEN <<NL>> ELSE <<>>) \o JoinLines(Tail(ls))

preprocess_input(text) == JoinLines(TextLines(text))

ExitCmd == <<".", "e", "x", "i", "t">>
LoadCmd == <<".", "l", "o", "a", "d">>

\* the lines a user types (before the terminating newline)
RawLines == {<<>>, <<"a">>, <<"a", BS>>, <<"a", BS, SP>>, ExitCmd, LoadCmd}

\* contents of the files a user loads
FileContents == {<<"a">>, <<"a", BS, NL, "a", NL>>, <<>>}

\* ----------------------------------------------------------------- values
Names == {"x", "y"}
TypeNames == {"Whole", "Decimal", "Text", "Truth"}

\* Value: s is the text of a String (a sequence of characters)
Number(n, d) == [k |-> "Number", n |-> n, d |-> d, s |-> <<>>, b |-> FALSE]
String(s)    == [k |-> "String", n |-> 0, d |-> 1, s |-> s, b |-> FALSE]
Boolean(b)   == [k |-> "Boolean", n |-> 0, d |-> 1, s |-> <<>>, b |-> b]
Null         == [k |-> "Null", n |-> 0, d |-> 1, s |-> <<>>, b |-> FALSE]

Three        == Number(3, 1)
ThreeAndHalf == Number(7, 2)
Half         == Number(1, 2)
Hi           == String(<<"h", "i">>)

\* f64::fract() == 0.0 : false for inf and NaN (their fract is NaN)
IsWholeNumber(v) == v.d # 0 /\ v.n % v.d = 0

\* value_type without the fract() test: every number is a Whole
value_type_integral(v) ==
    CASE v.k = "Number"  -> "Whole"
      [] v.k = "String"  -> "Text"
      [] v.k = "Boolean" -> "Truth"
      [] v.k = "Null"    -> "Nothing"
      [] OTHER           -> "Object"

\* the type name StoreVar computes for a value (an Object value's type is its
\* class name; no instruction constructs one, NewObject fails)
value_type(v) ==
    CASE v.k = "Number"  -> (IF IsWholeNumber(v) THEN "Whole" ELSE "Decimal")
      [] v.k = "String"  -> "Text"
      [] v.k = "Boolean" -> "Truth"
      [] v.k = "Null"    -> "Nothing"
      [] OTHER           -> "Object"

\* ----------------------------------------------------------- f64 arithmetic
Abs(n)  == IF n < 0 THEN -n ELSE n
Sign(n) == IF n > 0 THEN 1 ELSE IF n < 0 THEN -1 ELSE 0

RECURSIVE Gcd(_, _)
Gcd(a, b) == IF b = 0 THEN a ELSE Gcd(b, a % b)

\* the rational n/d, d # 0, in lowest terms with a positive denominator
Ratio(n, d) ==
    LET g == Gcd(Abs(n), Abs(d))
    IN  Number(Sign(d) * (n \div g), Abs(d) \div g)

NaN      == Number(0, 0)
Inf(sgn) == Number(sgn, 0)
IsNaN(v)    == v.d = 0 /\ v.n = 0
IsFinite(v) == v.d # 0
SignOrPlus(v) == IF v.n < 0 THEN -1 ELSE 1

\* |x, y| x + y
f64_add(x, y) ==
    IF IsNaN(x) \/ IsNaN(y) THEN NaN
    ELSE IF ~IsFinite(x) /\ ~IsFinite(y) THEN (IF x.n = y.n THEN x ELSE NaN)
    ELSE IF ~IsFinite(x) THEN x
    ELSE IF ~IsFinite(y) THEN y
    ELSE Ratio(x.n * y.d + y.n * x.d, x.d * y.d)

\* |x, y| x - y
f64_sub(x, y) == f64_add(x, Number(-y.n, y.d))

\* |x, y| x * y
f64_mul(x, y) ==
    IF IsNaN(x) \/ IsNaN(y) THEN NaN
    ELSE IF ~IsFinite(x) \/ ~IsFinite(y)
         THEN (IF x.n = 0 \/ y.n = 0 THEN NaN ELSE Inf(Sign(x.n) * Sign(y.n)))
    ELSE Ratio(x.n * y.n, x.d * y.d)

\* |x, y| x / y : no zero-divisor guard, IEEE results
f64_div(x, y) ==
    IF IsNaN(x) \/ IsNaN(y) THEN NaN
    ELSE IF ~IsFinite(x) THEN (IF ~IsFinite(y) THEN NaN ELSE Inf(Sign(x.n) * SignOrPlus(y)))
    ELSE IF ~IsFinite(y) THEN Number(0, 1)
    ELSE IF y.n = 0 THEN (IF x.n = 0 THEN NaN ELSE Inf(Sign(x.n)))
    ELSE Ratio(x.n * y.d, x.d * y.n)

\* f64::floor
f64_floor(x) == IF IsFinite(x) THEN Number(x.n \div x.d, 1) ELSE x

\* --------------------------------------------------- canonical textual form
DigitChar(i) == CASE i = 0 -> "0" [] i = 1 -> "1" [] i = 2 -> "2" [] i = 3 -> "3"
                  [] i = 4 -> "4" [] i = 5 -> "5" [] i = 6 -> "6" [] i = 7 -> "7"
                  [] i = 8 -> "8" [] OTHER -> "9"

RECURSIVE NatToStr(_)
NatToStr(n) == IF n < 10 THEN <<DigitChar(n)>>
               ELSE Append(NatToStr(n \div 10), DigitChar(n % 10))

RECURSIVE FracDigits(_, _, _)
\* long division of r/d, at most `left` digits
FracDigits(r, d, left) ==
    IF r = 0 \/ left = 0 THEN <<>>
    ELSE <<DigitChar((r * 10) \div d)>> \o FracDigits((r * 10) % d, d, left - 1)

\* Display for Value: numbers in decimal, text unquoted, true/false, null
to_string(v) ==
    CASE v.k = "String"  -> v.s
      [] v.k = "Boolean" -> (IF v.b THEN <<"t", "r", "u", "e">> ELSE <<"f", "a", "l", "s", "e">>)
      [] v.k = "Null"    -> <<"n", "u", "l", "l">>
      [] v.k = "Number"  ->
            IF IsNaN(v) THEN <<"N", "a", "N">>
            ELSE IF ~IsFinite(v) THEN (IF v.n < 0 THEN <<"-">> ELSE <<>>) \o <<"i", "n", "f">>
            ELSE LET whole == Abs(v.n) \div v.d
                     rest  == Abs(v.n) % v.d
                 IN  (IF v.n < 0 THEN <<"-">> ELSE <<>>) \o NatToStr(whole)
                     \o (IF rest = 0 THEN <<>> ELSE <<".">> \o FracDigits(rest, v.d, 16))
      [] OTHER           -> <<>>

\* ---------------------------------------------------------------- opcodes
Op(op, name, val, target, argc) ==
    [op |-> op, name |-> name, val |-> val, target |-> target, argc |-> argc]

StoreVar(name)       == Op("StoreVar", name, Null, 0, 0)
LoadVar(name)        == Op("LoadVar", name, Null, 0, 0)
Push(v)              == Op("Push", "", v, 0, 0)
Pop                  == Op("Pop", "", Null, 0, 0)
Duplicate            == Op("Duplicate", "", Null, 0, 0)
Add                  == Op("Add", "", Null, 0, 0)
Subtract             == Op("Subtract", "", Null, 0, 0)
Multiply             == Op("Multiply", "", Null, 0, 0)
Divide               == Op("Divide", "", Null, 0, 0)
Jump(t)              == Op("Jump", "", Null, t, 0)
JumpIfFalse(t)       == Op("JumpIfFalse", "", Null, t, 0)
ConvertToString      == Op("ConvertToString", "", Null, 0, 0)
Call(name, argc)     == Op("Call", name, Null, 0, argc)
Return               == Op("Return", "", Null, 0, 0)
NewObject(c)         == Op("NewObject", c, Null, 0, 0)
GetProperty(p)       == Op("GetProperty", p, Null, 0, 0)
SetProperty(p)       == Op("SetProperty", p, Null, 0, 0)
CheckType(t)         == Op("CheckType", t, Null, 0, 0)
Cast(t)              == Op("Cast", t, Null, 0, 0)
Concat               == Op("Concat", "", Null, 0, 0)
Interpolate(n)       == Op("Interpolate", "", Null, 0, n)
CheckAssignmentType  == Op("CheckAssignmentType", "", Null, 0, 0)
Show                 == Op("Show", "", Null, 0, 0)

\* ------------------------------------------------- the bytecode of a fragment
RECURSIVE SeqsUpTo(_, _)
SeqsUpTo(S, n) ==
    IF n = 0 THEN {<<>>}
    ELSE LET shorter == SeqsUpTo(S, n - 1)
         IN  shorter \cup {Append(q, e) : q \in {r \in shorter : Len(r) = n - 1}, e \in S}

\* instruction sets the short fragments are drawn from: every sequence of at
\* most MaxLen instructions of one set is a fragment
Declarations == {Push(Three), Push(ThreeAndHalf), Push(Null), CheckType("Whole"),
                 StoreVar("x"), StoreVar("y")}
Loads        == {Push(Hi), CheckType("Text"), StoreVar("x"), LoadVar("x"), LoadVar("y"),
                 Show}
Branches     == {Push(Boolean(FALSE)), Push(Boolean(TRUE)), Push(Three), JumpIfFalse(2),
                 Show, Pop}
Jumps        == {Push(Three), Jump(0), Jump(1), JumpIfFalse(0), StoreVar("x"), Show}
Sums         == {Push(Three), Push(Half), Push(Hi), Add, Subtract, Duplicate}
Products     == {Push(Three), Push(Half), Push(Null), Multiply, Divide, Duplicate}
Strings      == {Push(Hi), Push(ThreeAndHalf), Concat, Interpolate(2), ConvertToString,
                 Show}
Calls        == {Push(Hi), Push(Three), Call("show", 1), Call("show", 2), Call("foo", 1),
                 Pop}
Objects      == {Push(ThreeAndHalf), NewObject("Point"), GetProperty("p"),
                 SetProperty("p"), Return, StoreVar("x")}
Casts        == {Push(ThreeAndHalf), Push(Hi), Push(Boolean(TRUE)), Cast("Whole"),
                 Cast("Text"), Cast("Truth")}
Assignments  == {Push(Three), Push(ThreeAndHalf), LoadVar("x"), CheckAssignmentType,
                 StoreVar("x"), CheckType("Whole")}

InstructionSets == {Declarations, Loads, Branches, Jumps, Sums, Products, Strings, Calls,
                    Objects, Casts, Assignments}

\* longer fragments, shaped as the generator lays out statements: a conditional
\* (condition, JumpIfFalse to the index after the body, body, next statement), a
\* typed declaration (value, CheckType, StoreVar), a typed assignment
IfThen(cond) == <<Push(cond), JumpIfFalse(4), Push(Hi), Show, Push(Three), StoreVar("x")>>
Scenarios ==
    { IfThen(Boolean(FALSE)), IfThen(Boolean(TRUE)), IfThen(Null),
      <<Jump(2), Push(Hi), Show, Push(Three), StoreVar("y")>>,
      <<Push(Hi), CheckType("Text"), StoreVar("y")>>,
      <<LoadVar("y"), Call("show", 1), Pop>>,
      <<LoadVar("y"), CheckType("Whole"), StoreVar("x")>>,
      <<Push(Hi), CheckType("Text"), StoreVar("y"), LoadVar("x"), Show>>,
      <<Push(ThreeAndHalf), CheckType("Decimal"), StoreVar("x"), LoadVar("x"), Show>>,
      <<Push(Three), LoadVar("x"), CheckAssignmentType, StoreVar("x")>>,
      <<Push(Hi), LoadVar("x"), CheckAssignmentType, StoreVar("x")>>,
      <<Push(Null), LoadVar("x"), CheckAssignmentType, StoreVar("x")>>,
      <<Push(Three), CheckType("Whole"), StoreVar("x"), Push(Hi), LoadVar("x"),
        CheckAssignmentType, StoreVar("x")>>,
      <<Push(ThreeAndHalf), LoadVar("x"), CheckAssignmentType, StoreVar("x")>>,
      <<Push(Boolean(TRUE)), Push(Hi), Push(ThreeAndHalf), Interpolate(2), Show>>,
      <<Push(Hi), Push(Null), Push(Three), Interpolate(3)>>,
      <<Push(Three), Push(Hi), Push(ThreeAndHalf), Call("show", 2), Pop>> }

\* every kind of value under every cast
CastOperands == {Three, ThreeAndHalf, Number(-7, 2), Hi, Boolean(TRUE), Null}
CastPairs == {<<Push(v), Cast(t)>> : v \in CastOperands, t \in TypeNames \cup {"Nothing"}}

Programs == UNION {SeqsUpTo(S, MaxLen) : S \in InstructionSets} \cup Scenarios \cup CastPairs

\* ------------------------------------------------------------------ state
VARIABLES
    variables,        \* Runtime.variables: name -> Value (domain = bound names)
    variable_types,   \* Runtime.variable_types: name -> declared type name
    input,            \* run_repl: the accumulated text
    is_continuation,  \* run_repl: a line ending in a backslash is pending
    pc,               \* "prompt" | "compile" | "exec" | "exited" | "aborted"
    source,           \* process_input: the preprocessed text handed to the tokenizer
    bytecode,         \* execute_bytecode: the instruction sequence
    ip,               \* execute_bytecode: instruction pointer (0-based)
    stack,            \* execute_bytecode: the operand stack (top = last)
    error,            \* the Err run_repl returned, or "none"
    printed,          \* standard output of the current fragment
    fragments,        \* history: fragments handed to process_input so far
    env0,             \* history: the environment when process_input was entered
    dispatched,       \* history: the instruction indexes dispatched in this fragment
    effects,          \* history: the stores and type declarations of this fragment
    stored,           \* history: name -> the value of its latest successful StoreVar
    leftover          \* history: the last execute_bytecode call ended with values stacked

vars == <<variables, variable_types, input, is_continuation, pc, source, bytecode, ip,
          stack, error, printed, fragments, env0, dispatched, effects, stored, leftover>>

EmptyMap == [n \in {} |-> Null]

\* HashMap::insert
Insert(m, key, val) == [n \in DOMAIN m \cup {key} |-> IF n = key THEN val ELSE m[n]]

Env == [vars |-> variables, types |-> variable_types]

\* Runtime::new and the first lines of run_repl
Init ==
    /\ variables = EmptyMap
    /\ variable_types = EmptyMap
    /\ input = <<>>
    /\ is_continuation = FALSE
    /\ pc = "prompt"
    /\ source = <<>>
    /\ bytecode = <<>>
    /\ ip = 0
    /\ stack = <<>>
    /\ error = "none"
    /\ printed = <<>>
    /\ fragments = 0
    /\ env0 = [vars |-> EmptyMap, types |-> EmptyMap]
    /\ dispatched = <<>>
    /\ effects = <<>>
    /\ stored = EmptyMap
    /\ leftover = FALSE

vmVars == <<bytecode, ip, stack, dispatched, effects>>
envVars == <<variables, variable_types, stored>>

\* EnterProcessInput with a fresh environment for every fragment
EnterProcessInputFresh(text) ==
    /\ fragments < MaxFragments
    /\ fragments' = fragments + 1
    /\ env0' = Env
    /\ source' = preprocess_input(text)
    /\ pc' = "compile"
    /\ printed' = <<>>
    /\ dispatched' = <<>>
    /\ effects' = <<>>
    /\ variables' = EmptyMap
    /\ variable_types' = EmptyMap
    /\ UNCHANGED <<bytecode, ip, stack, error, stored, leftover>>

\* process_input up to the tokenizer: preprocess, then the compilation stages run
EnterProcessInput(text) ==
    /\ fragments < MaxFragments
    /\ fragments' = fragments + 1
    /\ env0' = Env
    /\ source' = preprocess_input(text)
    /\ pc' = "compile"
    /\ printed' = <<>>
    /\ dispatched' = <<>>
    /\ effects' = <<>>
    /\ UNCHANGED <<bytecode, ip, stack, error, envVars, leftover>>

NumLines(text) == Len(TextLines(text))

\* ReplExit without the `if !is_continuation` guard
ReplExitAlways ==
    /\ pc = "prompt"
    /\ \E raw \in RawLines :
         /\ TrimEnd(raw) = ExitCmd
         /\ pc' = "exited"
         /\ printed' = <<[kind |-> "repl", text |-> <<"G", "o", "o", "d", "b", "y", "e", "!">>]>>
         /\ UNCHANGED <<input, is_continuation, source, error, fragments, env0, vmVars,
                        envVars, leftover>>

\* run_repl: ".exit" outside a continuation
ReplExit ==
    /\ pc = "prompt"
    /\ \E raw \in RawLines :
         /\ TrimEnd(raw) = ExitCmd
         /\ ~is_continuation
         /\ pc' = "exited"
         /\ printed' = <<[kind |-> "repl", text |-> <<"G", "o", "o", "d", "b", "y", "e", "!">>]>>
         /\ UNCHANGED <<input, is_continuation, source, error, fragments, env0, vmVars,
                        envVars, leftover>>

\* run_repl: ".load" outside a continuation, then run_file
ReplLoad ==
    /\ pc = "prompt"
    /\ \E raw \in RawLines :
         /\ TrimEnd(raw) = LoadCmd
         /\ ~is_continuation
         /\ \/ \* read_to_string fails: run_file returns Err, run_repl returns it
               /\ pc' = "aborted"
               /\ error' = "Error reading file"
               /\ UNCHANGED <<input, is_continuation, source, printed, fragments, env0,
                              vmVars, envVars, leftover>>
            \/ \E content \in FileContents :
                 /\ EnterProcessInput(content)
                 /\ UNCHANGED <<input, is_continuation>>

\* run_repl: any other line is appended to the buffer
ReplLine ==
    /\ pc = "prompt"
    /\ \E raw \in RawLines :
         LET line == TrimEnd(raw)
             text == input \o line \o <<NL>>
         IN  /\ ~(line \in {ExitCmd, LoadCmd} /\ ~is_continuation)
             /\ IF EndsWithBackslash(TrimEnd(line))
                THEN /\ NumLines(text) < MaxLines
                     /\ input' = text
                     /\ is_continuation' = TRUE
                     /\ UNCHANGED <<pc, source, error, printed, fragments, env0, vmVars,
                                    envVars, leftover>>
                ELSE IF Trim(text) # <<>>
                THEN /\ input' = text
                     /\ EnterProcessInput(text)
                     /\ UNCHANGED is_continuation
                ELSE /\ input' = <<>>
                     /\ is_continuation' = FALSE
                     /\ UNCHANGED <<pc, source, error, printed, fragments, env0, vmVars,
                                    envVars, leftover>>

\* process_input returned Ok to run_repl: input.clear(); is_continuation = false.
\* The locals stack and ip of execute_bytecode are dropped with their last
\* contents; nothing empties them here, the next call creates its own.
ReturnOk ==
    /\ pc' = "prompt"
    /\ input' = <<>>
    /\ is_continuation' = FALSE
    /\ source' = <<>>
    /\ bytecode' = <<>>
    /\ leftover' = (stack # <<>>)
    /\ UNCHANGED <<ip, stack>>

\* an Err travels through every `?` up to main: the session ends
ReturnErr(msg) ==
    /\ pc' = "aborted"
    /\ error' = msg
    /\ UNCHANGED <<input, is_continuation, leftover>>

CompileStages == {"tokenize", "parse", "analyze", "generate"}

\* DebugOutput with the AST printed ahead of the tokens
DebugOutputAstFirst ==
    <<[kind |-> "AST", text |-> <<>>], [kind |-> "Tokens", text |-> <<>>],
      [kind |-> "Bytecode", text |-> <<>>]>>

DebugOutput == <<[kind |-> "Tokens", text |-> <<>>], [kind |-> "AST", text |-> <<>>],
                 [kind |-> "Bytecode", text |-> <<>>]>>

\* Compile with the operand stack and the instruction pointer kept in the Runtime,
\* not created by execute_bytecode
CompileResuming ==
    /\ pc = "compile"
    /\ \/ \E stage \in CompileStages :
            /\ ReturnErr(stage)
            /\ source' = <<>>
            /\ UNCHANGED <<printed, fragments, env0, vmVars, envVars>>
       \/ \E code \in Programs :
            /\ printed' = DebugOutput
            /\ bytecode' = code
            /\ pc' = "exec"
            /\ source' = <<>>
            /\ UNCHANGED <<input, is_continuation, error, fragments, env0, dispatched,
                           effects, envVars, leftover, stack, ip>>

\* Compile with the type mapping emptied when the analyzer is seeded
CompileClearingTypes ==
    /\ pc = "compile"
    /\ \/ \E stage \in CompileStages :
            /\ ReturnErr(stage)
            /\ source' = <<>>
            /\ variable_types' = (IF stage \in {"analyze", "generate"} THEN EmptyMap
                                  ELSE variable_types)
            /\ UNCHANGED <<printed, fragments, env0, vmVars, variables, stored>>
       \/ \E code \in Programs :
            /\ printed' = DebugOutput
            /\ bytecode' = code
            /\ stack' = <<>>
            /\ ip' = 0
            /\ pc' = "exec"
            /\ source' = <<>>
            /\ UNCHANGED <<input, is_continuation, error, fragments, env0, dispatched,
                           effects, envVars, leftover>>

\* process_input: tokenize, parse, analyze and generate each either fail or hand
\* on; after generate the debug output is printed and execute_bytecode starts
Compile ==
    /\ pc = "compile"
    /\ \/ \E stage \in CompileStages :
            /\ ReturnErr(stage)
            /\ source' = <<>>
            /\ UNCHANGED <<printed, fragments, env0, vmVars, envVars>>
       \/ \E code \in Programs :
            /\ printed' = DebugOutput
            /\ bytecode' = code
            /\ stack' = <<>>
            /\ ip' = 0
            /\ pc' = "exec"
            /\ source' = <<>>
            /\ UNCHANGED <<input, is_continuation, error, fragments, env0, dispatched,
                           effects, envVars, leftover>>

\* execute_bytecode: the while condition fails, Ok(()) is returned
ExecDone ==
    /\ pc = "exec"
    /\ ip >= Len(bytecode)
    /\ ReturnOk
    /\ UNCHANGED <<error, printed, fragments, env0, dispatched, effects, envVars>>

\* ------------------------------------------------------- execute_bytecode
Top(s)  == s[Len(s)]
Rest(s) == SubSeq(s, 1, Len(s) - 1)

\* the instruction at the instruction pointer
cur == bytecode[ip + 1]

\* `while ip < bytecode.len() { match &bytecode[ip] { kind => ...`
Dispatch(kind) ==
    /\ pc = "exec"
    /\ ip < Len(bytecode)
    /\ cur.op = kind
    /\ Len(dispatched) < MaxSteps
    /\ dispatched' = Append(dispatched, ip)

\* the arm returned Ok(()): `ip += 1` on whatever the arm left in ip
Advance(armIp) ==
    /\ ip' = armIp + 1
    /\ UNCHANGED <<pc, input, is_continuation, source, error, fragments, env0, bytecode,
                   leftover>>

\* Fail with the environment restored to what it was when the fragment began
FailRollingBack(msg) ==
    /\ ReturnErr(msg)
    /\ variables' = env0.vars
    /\ variable_types' = env0.types
    /\ UNCHANGED <<ip, source, fragments, env0, bytecode, printed, effects, stored>>

\* the arm returned Err: `?` leaves execute_bytecode, process_input and run_repl;
\* nothing the fragment did before is undone
Fail(msg) ==
    /\ ReturnErr(msg)
    /\ UNCHANGED <<ip, source, fragments, env0, bytecode, printed, effects, envVars>>

\* an arm that neither prints nor touches the environment
Quiet == UNCHANGED <<printed, effects, envVars>>

RECURSIVE get_last_var_name(_)
\* get_next_var_name returning the last StoreVar instead of the first
get_last_var_name(upcoming_ops) ==
    IF upcoming_ops = <<>> THEN <<>>
    ELSE IF upcoming_ops[Len(upcoming_ops)].op = "StoreVar"
         THEN <<upcoming_ops[Len(upcoming_ops)].name>>
    ELSE get_last_var_name(SubSeq(upcoming_ops, 1, Len(upcoming_ops) - 1))

RECURSIVE get_next_var_name(_)
\* the name of the first StoreVar of upcoming_ops: <<name>>, or <<>> for None
get_next_var_name(upcoming_ops) ==
    IF upcoming_ops = <<>> THEN <<>>
    ELSE IF upcoming_ops[1].op = "StoreVar" THEN <<upcoming_ops[1].name>>
    ELSE get_next_var_name(Tail(upcoming_ops))

\* &bytecode[ip+1..]
Upcoming == SubSeq(bytecode, ip + 2, Len(bytecode))

StoreEffect(name, val) == [kind |-> "store", name |-> name, val |-> val, type |-> ""]
TypeEffect(name, type) == [kind |-> "type", name |-> name, val |-> Null, type |-> type]

\* StoreVar's test of the popped value against the declared type of name
StoreRejects(types, name, value) ==
    /\ name \in DOMAIN types
    /\ value.k # "Null"
    /\ types[name] # value_type(value)

ExecStoreVar ==
    /\ Dispatch("StoreVar")
    /\ IF stack = <<>>
       THEN Fail("Stack underflow") /\ UNCHANGED stack
       ELSE LET value == Top(stack)
            IN  /\ stack' = Rest(stack)
                /\ IF StoreRejects(variable_types, cur.name, value)
                   THEN Fail("Type mismatch")
                   ELSE /\ variables' = Insert(variables, cur.name, value)
                        /\ effects' = Append(effects, StoreEffect(cur.name, value))
                        /\ stored' = [n \in DOMAIN stored \cup {cur.name} |->
                                        IF n = cur.name THEN value ELSE stored[n]]
                        /\ Advance(ip)
                        /\ UNCHANGED <<printed, variable_types>>

\* ExecLoadVar taking a declared type for a binding: a declared, unbound name loads null
ExecLoadVarDeclared ==
    /\ Dispatch("LoadVar")
    /\ IF cur.name \in DOMAIN variables
       THEN stack' = Append(stack, variables[cur.name]) /\ Advance(ip) /\ Quiet
       ELSE IF cur.name \in DOMAIN variable_types
       THEN stack' = Append(stack, Null) /\ Advance(ip) /\ Quiet
       ELSE Fail("Undefined variable") /\ UNCHANGED stack

ExecLoadVar ==
    /\ Dispatch("LoadVar")
    /\ IF cur.name \in DOMAIN variables
       THEN stack' = Append(stack, variables[cur.name]) /\ Advance(ip) /\ Quiet
       ELSE Fail("Undefined variable") /\ UNCHANGED stack

ExecPush ==
    /\ Dispatch("Push")
    /\ stack' = Append(stack, cur.val)
    /\ Advance(ip)
    /\ Quiet

ExecPop ==
    /\ Dispatch("Pop")
    /\ stack' = (IF stack = <<>> THEN stack ELSE Rest(stack))
    /\ Advance(ip)
    /\ Quiet

ExecDuplicate ==
    /\ Dispatch("Duplicate")
    /\ stack' = (IF stack = <<>> THEN stack ELSE Append(stack, Top(stack)))
    /\ Advance(ip)
    /\ Quiet

\* binary_op applying the closure to (b, a)
binary_op_swapped(a, b, kind) ==
    IF a.k = "Number" /\ b.k = "Number"
    THEN <<CASE kind = "Add"      -> f64_add(b, a)
             [] kind = "Subtract" -> f64_sub(b, a)
             [] kind = "Multiply" -> f64_mul(b, a)
             [] OTHER             -> f64_div(b, a)>>
    ELSE <<>>

\* binary_op: Ok(<<v>>) or Err(<<>>)
binary_op(a, b, kind) ==
    IF a.k = "Number" /\ b.k = "Number"
    THEN <<CASE kind = "Add"      -> f64_add(a, b)
             [] kind = "Subtract" -> f64_sub(a, b)
             [] kind = "Multiply" -> f64_mul(a, b)
             [] OTHER             -> f64_div(a, b)>>
    ELSE <<>>

\* Add, Subtract, Multiply, Divide: pop b, pop a, push binary_op(a, b, op)
ExecBinary(kind) ==
    /\ Dispatch(kind)
    /\ IF stack = <<>>
       THEN Fail("Stack underflow") /\ UNCHANGED stack
       ELSE IF Len(stack) = 1
       THEN Fail("Stack underflow") /\ stack' = Rest(stack)
       ELSE LET b == Top(stack)
                a == Top(Rest(stack))
                r == binary_op(a, b, kind)
            IN  IF r = <<>>
                THEN Fail("Invalid operands") /\ stack' = Rest(Rest(stack))
                ELSE Advance(ip) /\ stack' = Append(Rest(Rest(stack)), r[1]) /\ Quiet

ExecAdd      == ExecBinary("Add")
ExecSubtract == ExecBinary("Subtract")
ExecMultiply == ExecBinary("Multiply")
ExecDivide   == ExecBinary("Divide")

\* `ip = *target;` : the value the jump arms leave in ip
JumpIp(target) == target

ExecJump ==
    /\ Dispatch("Jump")
    /\ Advance(JumpIp(cur.target))
    /\ UNCHANGED stack
    /\ Quiet

\* JumpTaken treating every value but true as false
JumpTakenUnlessTrue(s) == s # <<>> /\ Top(s) # Boolean(TRUE)

\* `if let Some(Value::Boolean(false)) = stack.last()`
JumpTaken(s) == s # <<>> /\ Top(s) = Boolean(FALSE)

ExecJumpIfFalse ==
    /\ Dispatch("JumpIfFalse")
    /\ Advance(IF JumpTaken(stack) THEN JumpIp(cur.target) ELSE ip)
    /\ UNCHANGED stack
    /\ Quiet

ExecConvertToString ==
    /\ Dispatch("ConvertToString")
    /\ IF stack = <<>>
       THEN Fail("Stack underflow") /\ UNCHANGED stack
       ELSE Advance(ip) /\ stack' = Append(Rest(stack), String(to_string(Top(stack))))
            /\ Quiet

Min(a, b) == IF a < b THEN a ELSE b

\* the values Call and Interpolate pop: at most count, fewer when the stack runs out
Taken(s, count) == SubSeq(s, Len(s) - Min(count, Len(s)) + 1, Len(s))
Below(s, count) == SubSeq(s, 1, Len(s) - Min(count, Len(s)))

Line(v) == [kind |-> "value", text |-> to_string(v)]

\* ExecCall with the arguments left in pop order (`args.push(arg)`)
ExecCallPopOrder ==
    /\ Dispatch("Call")
    /\ LET args == Taken(stack, cur.argc)
       IN  IF cur.name = "show"
           THEN /\ printed' = (IF args # <<>> THEN Append(printed, Line(Top(args)))
                               ELSE printed)
                /\ stack' = Append(Below(stack, cur.argc), Null)
                /\ Advance(ip)
                /\ UNCHANGED <<effects, envVars>>
           ELSE /\ Fail("Unknown function")
                /\ stack' = Below(stack, cur.argc)

ExecCall ==
    /\ Dispatch("Call")
    /\ LET args == Taken(stack, cur.argc)
       IN  IF cur.name = "show"
           THEN /\ printed' = (IF args # <<>> THEN Append(printed, Line(args[1])) ELSE printed)
                /\ stack' = Append(Below(stack, cur.argc), Null)
                /\ Advance(ip)
                /\ UNCHANGED <<effects, envVars>>
           ELSE /\ Fail("Unknown function")
                /\ stack' = Below(stack, cur.argc)

\* `break`: the loop ends and execute_bytecode returns Ok(())
ExecReturn ==
    /\ Dispatch("Return")
    /\ ReturnOk
    /\ UNCHANGED <<error, fragments, env0>>
    /\ Quiet

ExecNewObject ==
    /\ Dispatch("NewObject")
    /\ Fail("Object creation not implemented yet")
    /\ UNCHANGED stack

\* ExecGetProperty as an instruction that is skipped
ExecGetPropertyIgnored ==
    /\ Dispatch("GetProperty")
    /\ Advance(ip)
    /\ UNCHANGED stack
    /\ Quiet

ExecGetProperty ==
    /\ Dispatch("GetProperty")
    /\ Fail("Property access not implemented yet")
    /\ UNCHANGED stack

ExecSetProperty ==
    /\ Dispatch("SetProperty")
    /\ Fail("Property setting not implemented yet")
    /\ UNCHANGED stack

\* the type mapping after CheckType(type_name) with `upcoming_ops` ahead of it
DeclareType(types, upcoming_ops, type_name) ==
    LET next == get_next_var_name(upcoming_ops)
    IN  IF next = <<>> THEN types ELSE Insert(types, next[1], type_name)

ExecCheckType ==
    /\ Dispatch("CheckType")
    /\ variable_types' = DeclareType(variable_types, Upcoming, cur.name)
    /\ effects' = (IF get_next_var_name(Upcoming) = <<>> THEN effects
                   ELSE Append(effects, TypeEffect(get_next_var_name(Upcoming)[1], cur.name)))
    /\ Advance(ip)
    /\ UNCHANGED <<stack, printed, variables, stored>>

\* cast_value with an arm converting a number to its text
cast_value_converting(value, type_name) ==
    CASE value.k = "Number"  /\ type_name = "Whole"   -> <<f64_floor(value)>>
      [] value.k = "Number"  /\ type_name = "Decimal" -> <<value>>
      [] value.k = "Number"  /\ type_name = "Text"    -> <<String(to_string(value))>>
      [] value.k = "String"  /\ type_name = "Text"    -> <<value>>
      [] value.k = "Boolean" /\ type_name = "Truth"   -> <<value>>
      [] OTHER                                        -> <<>>

\* the match of Cast: Ok(<<v>>) or Err(<<>>)
cast_value(value, type_name) ==
    CASE value.k = "Number"  /\ type_name = "Whole"   -> <<f64_floor(value)>>
      [] value.k = "Number"  /\ type_name = "Decimal" -> <<value>>
      [] value.k = "String"  /\ type_name = "Text"    -> <<value>>
      [] value.k = "Boolean" /\ type_name = "Truth"   -> <<value>>
      [] OTHER                                        -> <<>>

ExecCast ==
    /\ Dispatch("Cast")
    /\ IF stack = <<>>
       THEN Advance(ip) /\ UNCHANGED stack /\ Quiet
       ELSE LET r == cast_value(Top(stack), cur.name)
            IN  IF r = <<>>
                THEN Fail("Cannot cast") /\ stack' = Rest(stack)
                ELSE Advance(ip) /\ stack' = Append(Rest(stack), r[1]) /\ Quiet

\* concat_values: Ok(<<v>>) or Err(<<>>)
concat_values(a, b) ==
    IF a.k = "String" /\ b.k = "String" THEN <<String(a.s \o b.s)>> ELSE <<>>

ExecConcat ==
    /\ Dispatch("Concat")
    /\ IF stack = <<>>
       THEN Fail("Stack underflow") /\ UNCHANGED stack
       ELSE IF Len(stack) = 1
       THEN Fail("Stack underflow") /\ stack' = Rest(stack)
       ELSE LET r == concat_values(Top(Rest(stack)), Top(stack))
            IN  IF r = <<>>
                THEN Fail("Can only concatenate strings") /\ stack' = Rest(Rest(stack))
                ELSE Advance(ip) /\ stack' = Append(Rest(Rest(stack)), r[1]) /\ Quiet

RECURSIVE interpolate_pop_order(_, _)
\* interpolate appending each popped value: `result += &value.to_string()`
interpolate_pop_order(popped, result) ==
    IF popped = <<>> THEN result
    ELSE interpolate_pop_order(Rest(popped), result \o to_string(Top(popped)))

RECURSIVE interpolate(_, _)
\* the loop of Interpolate: `result = value.to_string() + &result` per popped value
interpolate(popped, result) ==
    IF popped = <<>> THEN result
    ELSE interpolate(Rest(popped), to_string(Top(popped)) \o result)

ExecInterpolate ==
    /\ Dispatch("Interpolate")
    /\ stack' = Append(Below(stack, cur.argc),
                       String(interpolate(Taken(stack, cur.argc), <<>>)))
    /\ Advance(ip)
    /\ Quiet

\* the Type CheckAssignmentType computes for the new value, by name
assignment_type(v) ==
    CASE v.k = "Number"  -> (IF IsWholeNumber(v) THEN "Whole" ELSE "Decimal")
      [] v.k = "String"  -> "Text"
      [] v.k = "Boolean" -> "Truth"
      [] v.k = "Null"    -> "Nothing"
      [] OTHER           -> "Object"

\* CheckAssignmentType's test of the new value against the next StoreVar's type
AssignmentRejects(types, upcoming_ops, new_value) ==
    LET next == get_next_var_name(upcoming_ops)
    IN  /\ next # <<>>
        /\ next[1] \in DOMAIN types
        /\ types[next[1]] # assignment_type(new_value)

\* ExecCheckAssignmentType testing the value it popped, not the one beneath
ExecCheckAssignmentTypeOfOld ==
    /\ Dispatch("CheckAssignmentType")
    /\ IF stack = <<>>
       THEN Fail("Stack underflow") /\ UNCHANGED stack
       ELSE /\ stack' = Rest(stack)
            /\ IF Len(stack) = 1
               THEN Fail("Stack underflow")
               ELSE IF AssignmentRejects(variable_types, Upcoming, Top(stack))
               THEN Fail("Type mismatch")
               ELSE Advance(ip) /\ Quiet

ExecCheckAssignmentType ==
    /\ Dispatch("CheckAssignmentType")
    /\ IF stack = <<>>
       THEN Fail("Stack underflow") /\ UNCHANGED stack
       ELSE /\ stack' = Rest(stack)
            /\ IF Len(stack) = 1
               THEN Fail("Stack underflow")
               ELSE IF AssignmentRejects(variable_types, Upcoming, Top(Rest(stack)))
               THEN Fail("Type mismatch")
               ELSE Advance(ip) /\ Quiet

\* ExecShow going on silently when there is nothing to pop
ExecShowLenient ==
    /\ Dispatch("Show")
    /\ IF stack = <<>>
       THEN Advance(ip) /\ UNCHANGED stack /\ Quiet
       ELSE /\ printed' = Append(printed, Line(Top(stack)))
            /\ stack' = Rest(stack)
            /\ Advance(ip)
            /\ UNCHANGED <<effects, envVars>>

ExecShow ==
    /\ Dispatch("Show")
    /\ IF stack = <<>>
       THEN Fail("Stack underflow") /\ UNCHANGED stack
       ELSE /\ printed' = Append(printed, Line(Top(stack)))
            /\ stack' = Rest(stack)
            /\ Advance(ip)
            /\ UNCHANGED <<effects, envVars>>

Next ==
    \/ ReplExit
    \/ ReplLoad
    \/ ReplLine
    \/ Compile
    \/ ExecDone
    \/ ExecStoreVar
    \/ ExecLoadVar
    \/ ExecPush
    \/ ExecPop
    \/ ExecDuplicate
    \/ ExecAdd
    \/ ExecSubtract
    \/ ExecMultiply
    \/ ExecDivide
    \/ ExecJump
    \/ ExecJumpIfFalse
    \/ ExecConvertToString
    \/ ExecCall
    \/ ExecReturn
    \/ ExecNewObject
    \/ ExecGetProperty
    \/ ExecSetProperty
    \/ ExecCheckType
    \/ ExecCast
    \/ ExecConcat
    \/ ExecInterpolate
    \/ ExecCheckAssignmentType
    \/ ExecShow

Spec == Init /\ [][Next]_vars

\* ------------------------------------------ preprocess_input on any text
Chars == {"a", BS, SP, NL}

\* the texts process_input may be handed: a REPL buffer or the content of a file
Texts == SeqsUpTo(Chars, MaxChars)

PreprocessInit ==
    /\ input \in Texts
    /\ variables = EmptyMap
    /\ variable_types = EmptyMap
    /\ is_continuation = FALSE
    /\ pc = "prompt"
    /\ source = <<>>
    /\ bytecode = <<>>
    /\ ip = 0
    /\ stack = <<>>
    /\ error = "none"
    /\ printed = <<>>
    /\ fragments = 0
    /\ env0 = [vars |-> EmptyMap, types |-> EmptyMap]
    /\ dispatched = <<>>
    /\ effects = <<>>
    /\ stored = EmptyMap
    /\ leftover = FALSE

\* process_input(&input): `let processed_input = self.preprocess_input(input)?`
Preprocess ==
    /\ pc = "prompt"
    /\ pc' = "compile"
    /\ source' = preprocess_input(input)
    /\ UNCHANGED <<variables, variable_types, input, is_continuation, bytecode, ip, stack,
                   error, printed, fragments, env0, dispatched, effects, stored, leftover>>

PreprocessNext == Preprocess

PreprocessSpec == PreprocessInit /\ [][PreprocessNext]_vars

\* ------------------------------------------------------------- properties
RuntimeErrors ==
    {"Stack underflow", "Type mismatch", "Undefined variable", "Unknown function",
     "Cannot cast", "Invalid operands", "Can only concatenate strings",
     "Object creation not implemented yet", "Property access not implemented yet",
     "Property setting not implemented yet"}

Last(s) == s[Len(s)]

\* a fragment boundary: no fragment is being compiled or executed
AtBoundary == pc \in {"prompt", "exited", "aborted"}

\* the runtime type of a value as the specification words it
RuntimeType(v) ==
    IF v.k = "Number" THEN (IF v.d # 0 /\ (v.n % v.d) = 0 THEN "Whole" ELSE "Decimal")
    ELSE IF v.k = "String" THEN "Text"
    ELSE IF v.k = "Boolean" THEN "Truth"
    ELSE "Nothing"

\* an instruction is about to be dispatched, and it is a `kind`
About(kind) == pc = "exec" /\ ip < Len(bytecode) /\ bytecode[ip + 1].op = kind

\* m2 is m1 with key bound to val and every other key as it was
Rebound(m1, m2, key, val) ==
    /\ DOMAIN m2 = DOMAIN m1 \cup {key}
    /\ m2[key] = val
    /\ \A other \in DOMAIN m1 \ {key} : m2[other] = m1[other]

\* C1: a runtime error raised while executing a fragment aborts only that
\* fragment: the session stays alive, the REPL loop goes on to read the next one.
C1_SessionSurvivesRuntimeError ==
    error \in RuntimeErrors => pc \in {"prompt", "compile", "exec"}

\* C2: when a fragment fails in a compilation stage, the variables and the
\* declared types are what they were when process_input was entered and no
\* instruction of the fragment has been executed.
C2_CompileFailureLeavesEnvironment ==
    (pc = "aborted" /\ error \in CompileStages)
        => /\ variables = env0.vars
           /\ variable_types = env0.types
           /\ dispatched = <<>>

C2_Witness ==
    /\ pc = "aborted"
    /\ error = "analyze"
    /\ "x" \in DOMAIN variables
    /\ "x" \in DOMAIN variable_types

RECURSIVE Replay(_, _)
\* the environment env after the stores and declarations of log, in order
Replay(env, log) ==
    IF log = <<>> THEN env
    ELSE LET e == log[1]
             m == IF e.kind = "store" THEN env.vars ELSE env.types
             v == IF e.kind = "store" THEN e.val ELSE e.type
             n == [k \in DOMAIN m \cup {e.name} |-> IF k = e.name THEN v ELSE m[k]]
         IN  Replay(IF e.kind = "store" THEN [env EXCEPT !.vars = n]
                    ELSE [env EXCEPT !.types = n], Tail(log))

RECURSIVE EffectfulKinds(_)
\* of the dispatched indexes idx, in order: "store" per StoreVar, "type" per
\* CheckType that has a StoreVar somewhere after it
EffectfulKinds(idx) ==
    IF idx = <<>> THEN <<>>
    ELSE LET op == bytecode[idx[1] + 1].op
             storeAhead == \E j \in (idx[1] + 2)..Len(bytecode) : bytecode[j].op = "StoreVar"
         IN  (IF op = "StoreVar" THEN <<"store">>
              ELSE IF op = "CheckType" /\ storeAhead THEN <<"type">>
              ELSE <<>>) \o EffectfulKinds(Tail(idx))

\* C3: execution is not transactional: when a fragment fails at run time, the
\* environment is the one the fragment began with plus the effect of every
\* store and type-declaration marker executed before the failing instruction,
\* and no instruction runs after the failing one.
C3_NotTransactional ==
    (pc = "aborted" /\ error \in RuntimeErrors)
        => /\ Env = Replay(env0, effects)
           /\ [i \in 1..Len(effects) |-> effects[i].kind]
                 = EffectfulKinds(SubSeq(dispatched, 1, Len(dispatched) - 1))
           /\ ~ENABLED Next

\* a declaration and its store have taken effect, then a load failed
C3_Witness ==
    /\ pc = "aborted"
    /\ error = "Undefined variable"
    /\ Len(effects) = 2
    /\ effects[1].kind = "type"
    /\ effects[2].kind = "store"
    /\ variables # env0.vars
    /\ variable_types # env0.types

\* C4: at every fragment boundary, every variable with a declared type and a
\* binding holds a value of that type, or null.
C4_DeclaredTypesHold ==
    AtBoundary =>
        \A n \in DOMAIN variables \cap DOMAIN variable_types :
            variables[n].k = "Null" \/ RuntimeType(variables[n]) = variable_types[n]

\* C5: StoreVar(name) pops one value; a non-null value whose runtime type
\* differs from the declared type of name fails with a type mismatch and the
\* bindings stay as they were; otherwise the value becomes the binding of name
\* and no other variable changes.
C5_StoreVar ==
    [][(About("StoreVar") /\ stack # <<>>) =>
          LET v == stack[Len(stack)]
              name == bytecode[ip + 1].name
          IN  /\ stack' = SubSeq(stack, 1, Len(stack) - 1)
              /\ variable_types' = variable_types
              /\ IF /\ name \in DOMAIN variable_types
                    /\ v.k # "Null"
                    /\ RuntimeType(v) # variable_types[name]
                 THEN pc' = "aborted" /\ error' = "Type mismatch" /\ variables' = variables
                 ELSE pc' = "exec" /\ error' = "none" /\ Rebound(variables, variables', name, v)
      ]_vars

\* a Whole variable has just rejected 3.5
C5_Witness ==
    /\ pc = "aborted"
    /\ error = "Type mismatch"
    /\ ip > 0
    /\ bytecode[ip + 1].op = "StoreVar"
    /\ bytecode[ip] = Push(ThreeAndHalf)
    /\ Len(dispatched) > 1
    /\ dispatched[Len(dispatched) - 1] = ip - 1
    /\ bytecode[ip + 1].name \in DOMAIN variable_types
    /\ variable_types[bytecode[ip + 1].name] = "Whole"

\* C6: CheckType(T) leaves the stack and the bindings alone and records T for
\* the target of the first StoreVar after it, for no other variable; with no
\* StoreVar after it the type mapping stays as it was.
C6_CheckType ==
    [][About("CheckType") =>
          LET after == {j \in (ip + 2)..Len(bytecode) : bytecode[j].op = "StoreVar"}
          IN  /\ stack' = stack
              /\ variables' = variables
              /\ pc' = "exec"
              /\ IF after = {} THEN variable_types' = variable_types
                 ELSE LET first == CHOOSE j \in after : \A k \in after : j <= k
                      IN  Rebound(variable_types, variable_types', bytecode[first].name,
                                  bytecode[ip + 1].name)
      ]_vars

\* the marker has run, two stores to different variables are ahead
C6_Witness ==
    /\ pc = "exec"
    /\ bytecode = <<CheckType("Whole"), StoreVar("x"), StoreVar("y")>>
    /\ ip = 1
    /\ DOMAIN variable_types = {"x"}
    /\ variable_types["x"] = "Whole"

\* C7: the instruction pointer starts at 0, advances by one after a non-jump
\* instruction, and after Jump(t), or JumpIfFalse(t) with false on top, the next
\* instruction dispatched is the one at index t.
C7_JumpLandsOnTarget ==
    [][/\ (pc = "compile" /\ pc' = "exec") => ip' = 0
       /\ (pc = "exec" /\ ip < Len(bytecode) /\ pc' = "exec") =>
             ip' = IF \/ bytecode[ip + 1].op = "Jump"
                      \/ /\ bytecode[ip + 1].op = "JumpIfFalse"
                         /\ stack # <<>>
                         /\ stack[Len(stack)] = Boolean(FALSE)
                   THEN bytecode[ip + 1].target
                   ELSE ip + 1
      ]_vars

\* C8: JumpIfFalse leaves the stack as it is and raises no error; it takes the
\* jump (the pointer is set from its target, resuming where execute_bytecode
\* resumes after a jump) exactly when the top of the stack is boolean false, and
\* goes on to the next instruction when the top is true, is no boolean, or the
\* stack is empty.
C8_JumpIfFalse ==
    [][About("JumpIfFalse") =>
          /\ stack' = stack
          /\ error' = "none"
          /\ pc' = "exec"
          /\ variables' = variables
          /\ variable_types' = variable_types
          /\ ip' = IF stack # <<>> /\ stack[Len(stack)].k = "Boolean"
                      /\ ~stack[Len(stack)].b
                   THEN bytecode[ip + 1].target + 1
                   ELSE ip + 1
      ]_vars

\* JumpIfFalse has fallen through with a number on top of the stack
C8_Witness ==
    /\ pc = "exec"
    /\ bytecode = <<Push(Three), JumpIfFalse(2), Show>>
    /\ ip = 2
    /\ stack = <<Three>>

\* C9: LoadVar(name) fails with an undefined-variable error, the stack and the
\* environment as they were, when no StoreVar(name) has succeeded in the session
\* (a declared type is no binding); otherwise it pushes the value of the latest
\* successful StoreVar(name), in whatever fragment that was, and leaves the
\* environment alone.
C9_LoadVar ==
    [][About("LoadVar") =>
          LET name == bytecode[ip + 1].name
          IN  /\ variables' = variables
              /\ variable_types' = variable_types
              /\ IF name \in DOMAIN stored
                 THEN /\ stack' = Append(stack, stored[name])
                      /\ pc' = "exec"
                      /\ error' = "none"
                 ELSE /\ stack' = stack
                      /\ pc' = "aborted"
                      /\ error' = "Undefined variable"
      ]_vars

\* a value stored by the first fragment has been loaded by the second
C9_Witness ==
    /\ pc = "exec"
    /\ fragments = 2
    /\ effects = <<>>
    /\ dispatched = <<0>>
    /\ bytecode[1] = LoadVar("y")
    /\ stack = <<Hi>>

\* C10: the environment is never reset: no step removes a key from the bindings
\* or from the declared types, and whatever is no instruction of a running
\* fragment (reading lines, compiling, returning) leaves both mappings as they are.
C10_EnvironmentPersists ==
    [][/\ DOMAIN variables \subseteq DOMAIN variables'
       /\ DOMAIN variable_types \subseteq DOMAIN variable_types'
       /\ (pc # "exec" \/ pc' # "exec") =>
             (variables' = variables /\ variable_types' = variable_types)
      ]_vars

\* `let y: Text = "hi"` in one fragment, `show(y)` printing hi in the next
C10_Witness ==
    /\ fragments = 2
    /\ pc = "exec"
    /\ bytecode = <<LoadVar("y"), Call("show", 1), Pop>>
    /\ ip = 2
    /\ printed = Append(DebugOutput, [kind |-> "value", text |-> <<"h", "i">>])
    /\ "y" \in DOMAIN variable_types
    /\ variable_types["y"] = "Text"

\* the kinds of the output lines i..j of the current fragment
Kinds(i, j) == [n \in 1..(j - i + 1) |-> printed[i + n - 1].kind]

\* C11: a fragment whose compilation succeeded has emitted the tokens, then the
\* AST, then the opcodes, in that order, before its first instruction runs:
\* every line an instruction prints comes after these three, and a fragment
\* still compiling, or failed in a compilation stage, has emitted nothing.
C11_TraceBeforeExecution ==
    /\ (pc = "exec" \/ (dispatched # <<>> /\ pc # "exited"))
          => (Len(printed) >= 3 /\ Kinds(1, 3) = <<"Tokens", "AST", "Bytecode">>)
    /\ \A i \in 1..Len(printed) :
          printed[i].kind = "value"
             => (i > 3 /\ Kinds(1, 3) = <<"Tokens", "AST", "Bytecode">>)
    /\ \A i \in 4..Len(printed) : printed[i].kind = "value"
    /\ (pc = "compile" \/ (pc = "aborted" /\ error \in CompileStages)) => printed = <<>>

\* `show "hi"` has printed hi after the three parts of the trace
C11_Witness ==
    /\ pc = "exec"
    /\ bytecode = <<Push(Hi), Show>>
    /\ ip = 2
    /\ Len(printed) = 4
    /\ printed[1].kind = "Tokens"
    /\ printed[4] = [kind |-> "value", text |-> <<"h", "i">>]

\* C12: Call(name, n) with its n arguments on the stack pops those n values;
\* for show it prints the argument pushed first (the deepest of the n) and
\* nothing else, and pushes null on what was below; for any other name it fails
\* with an unknown-function error and prints nothing.
C12_Call ==
    [][(About("Call") /\ Len(stack) >= bytecode[ip + 1].argc) =>
          LET n == bytecode[ip + 1].argc
              below == SubSeq(stack, 1, Len(stack) - n)
          IN  IF bytecode[ip + 1].name = "show"
              THEN /\ pc' = "exec"
                   /\ error' = "none"
                   /\ stack' = Append(below, Null)
                   /\ printed' = IF n = 0 THEN printed
                                 ELSE Append(printed,
                                             [kind |-> "value",
                                              text |-> to_string(stack[Len(stack) - n + 1])])
              ELSE /\ pc' = "aborted"
                   /\ error' = "Unknown function"
                   /\ printed' = printed
                   /\ stack' = below
      ]_vars

\* show called with two arguments, "hi" pushed before 3.5, above a 3
C12_Witness ==
    /\ pc = "exec"
    /\ bytecode = <<Push(Three), Push(Hi), Push(ThreeAndHalf), Call("show", 2), Pop>>
    /\ ip = 4
    /\ stack = <<Three, Null>>
    /\ printed = Append(DebugOutput, [kind |-> "value", text |-> <<"h", "i">>])

RECURSIVE TextOf(_)
\* the canonical forms of the values vs, first to last, one after the other
TextOf(vs) == IF vs = <<>> THEN <<>> ELSE to_string(vs[1]) \o TextOf(Tail(vs))

\* C13: Interpolate(N) with the N parts p1..pN on top of the stack, pN topmost,
\* replaces exactly those N values by one text, str(p1) str(p2) ... str(pN) in
\* the order they were pushed, and leaves what was below them as it was.
C13_Interpolate ==
    [][(About("Interpolate") /\ Len(stack) >= bytecode[ip + 1].argc) =>
          LET n == bytecode[ip + 1].argc
              below == SubSeq(stack, 1, Len(stack) - n)
              parts == SubSeq(stack, Len(stack) - n + 1, Len(stack))
          IN  /\ stack' = Append(below, [k |-> "String", n |-> 0, d |-> 1,
                                         s |-> TextOf(parts), b |-> FALSE])
              /\ pc' = "exec"
              /\ error' = "none"
              /\ printed' = printed
              /\ variables' = variables
              /\ variable_types' = variable_types
      ]_vars

\* "hi" and 3.5 interpolated above a boolean: the text hi3.5
C13_Witness ==
    /\ pc = "exec"
    /\ bytecode = <<Push(Boolean(TRUE)), Push(Hi), Push(ThreeAndHalf), Interpolate(2), Show>>
    /\ ip = 4
    /\ stack = <<Boolean(TRUE), String(<<"h", "i", "3", ".", "5">>)>>

\* the result of the arithmetic instruction kind on the numbers left, right
Arith(kind, left, right) ==
    CASE kind = "Add"      -> f64_add(left, right)
      [] kind = "Subtract" -> f64_sub(left, right)
      [] kind = "Multiply" -> f64_mul(left, right)
      [] OTHER             -> f64_div(left, right)

ArithmeticOps == {"Add", "Subtract", "Multiply", "Divide"}

\* C14: an arithmetic instruction with two values on the stack pops the top one
\* as the right operand and the one below as the left operand; with two numbers
\* it pushes left op right in their place; if either is no number it fails with
\* the operand type error and pushes nothing.
C14_Arithmetic ==
    [][(pc = "exec" /\ ip < Len(bytecode) /\ bytecode[ip + 1].op \in ArithmeticOps
        /\ Len(stack) >= 2) =>
          LET right == stack[Len(stack)]
              left  == stack[Len(stack) - 1]
              below == SubSeq(stack, 1, Len(stack) - 2)
          IN  IF left.k = "Number" /\ right.k = "Number"
              THEN /\ stack' = Append(below, Arith(bytecode[ip + 1].op, left, right))
                   /\ pc' = "exec"
                   /\ error' = "none"
              ELSE /\ stack' = below
                   /\ pc' = "aborted"
                   /\ error' = "Invalid operands"
      ]_vars

\* 3 pushed, then 1/2, then Subtract: 5/2 is left
C14_Witness ==
    /\ pc = "exec"
    /\ bytecode = <<Push(Three), Push(Half), Subtract>>
    /\ ip = 3
    /\ stack = <<Number(5, 2)>>

\* the legal casts: <<result>>, or <<>> for a pair that is none
LegalCast(v, type) ==
    IF v.k = "Number" /\ type = "Whole"
    THEN IF v.d = 0 THEN <<v>>
         ELSE <<CHOOSE r \in {[v EXCEPT !.n = q, !.d = 1] : q \in -8..8} :
                    r.n * v.d <= v.n /\ v.n < (r.n + 1) * v.d>>
    ELSE IF \/ v.k = "Number" /\ type = "Decimal"
            \/ v.k = "String" /\ type = "Text"
            \/ v.k = "Boolean" /\ type = "Truth"
    THEN <<v>>
    ELSE <<>>

\* C15: Cast(T) with a value on the stack pops it and pushes its converted form
\* for the legal pairs only: a number to Whole gives the floor of the number, a
\* number to Decimal, a text to Text and a boolean to Truth give the value
\* itself; every other pair (null to anything, a number to Text, ...) fails with
\* a cast error and pushes nothing.
C15_Cast ==
    [][(About("Cast") /\ stack # <<>>) =>
          LET v == stack[Len(stack)]
              below == SubSeq(stack, 1, Len(stack) - 1)
              r == LegalCast(v, bytecode[ip + 1].name)
          IN  IF r # <<>>
              THEN /\ stack' = Append(below, r[1])
                   /\ pc' = "exec"
                   /\ error' = "none"
              ELSE /\ stack' = below
                   /\ pc' = "aborted"
                   /\ error' = "Cannot cast"
      ]_vars

\* -3.5 cast to Whole is -4
C15_Witness ==
    /\ pc = "exec"
    /\ bytecode = <<Push(Number(-7, 2)), Cast("Whole")>>
    /\ ip = 2
    /\ stack = <<Number(-4, 1)>>

\* C16: Show with a value on the stack pops exactly that value and prints its
\* canonical textual form; with an empty stack it fails with a stack underflow
\* and prints nothing.
C16_Show ==
    [][About("Show") =>
          IF stack = <<>>
          THEN /\ pc' = "aborted"
               /\ error' = "Stack underflow"
               /\ printed' = printed
               /\ stack' = stack
          ELSE /\ pc' = "exec"
               /\ error' = "none"
               /\ stack' = SubSeq(stack, 1, Len(stack) - 1)
               /\ printed' = Append(printed, [kind |-> "value",
                                              text |-> to_string(stack[Len(stack)])])
      ]_vars

\* a second Show has found the stack empty after the first printed 3.5
C16_Witness ==
    /\ pc = "aborted"
    /\ error = "Stack underflow"
    /\ bytecode = <<Push(ThreeAndHalf), Show, Show>>
    /\ ip = 2
    /\ stack = <<>>
    /\ printed = Append(DebugOutput, [kind |-> "value", text |-> <<"3", ".", "5">>])

\* the error each unimplemented operation raises
Unimplemented ==
    [NewObject   |-> "Object creation not implemented yet",
     GetProperty |-> "Property access not implemented yet",
     SetProperty |-> "Property setting not implemented yet"]

\* C17: NewObject, GetProperty and SetProperty are never skipped: the dispatch
\* of one fails the fragment with the unimplemented error naming that operation,
\* the stack, the bindings, the declared types and the output as they were, and
\* once such an error is raised no further step is taken.
C17_Unimplemented ==
    [][/\ (pc = "exec" /\ ip < Len(bytecode) /\ bytecode[ip + 1].op \in DOMAIN Unimplemented)
            => /\ pc' = "aborted"
               /\ error' = Unimplemented[bytecode[ip + 1].op]
               /\ stack' = stack
               /\ variables' = variables
               /\ variable_types' = variable_types
               /\ printed' = printed
               /\ dispatched' = Append(dispatched, ip)
       /\ (error \in {Unimplemented[o] : o \in DOMAIN Unimplemented}) => FALSE
      ]_vars

\* a property read has failed with 3.5 on the stack and an instruction after it
C17_Witness ==
    /\ pc = "aborted"
    /\ error = "Property access not implemented yet"
    /\ bytecode = <<Push(ThreeAndHalf), GetProperty("p"), StoreVar("x")>>
    /\ ip = 1
    /\ stack = <<ThreeAndHalf>>
    /\ "x" \notin DOMAIN variables

\* what the physical line i of ls contributes to the preprocessed text
Contribution(ls, i) ==
    LET text == TrimEnd(ls[i])
    IN  IF text # <<>> /\ text[Len(text)] = BS
        THEN SubSeq(text, 1, Len(text) - 1) \o <<SP>>
        ELSE IF i < Len(ls) THEN text \o <<NL>> ELSE text

RECURSIVE Contributions(_, _)
\* the contributions of the lines i.. of ls, in order
Contributions(ls, i) ==
    IF i > Len(ls) THEN <<>> ELSE Contribution(ls, i) \o Contributions(ls, i + 1)

TypedLines == {TrimEnd(raw) : raw \in RawLines}

\* C19: at the prompt, a line ending in a backslash is appended to the buffer and
\* turns continuation mode on; the first line that does not is appended and the
\* whole buffer is submitted as one fragment, once, unless it is blank; .exit
\* and .load are commands only with no continuation pending and are buffered as
\* text otherwise; when the fragment has run the buffer is empty and
\* continuation mode is off, and a waiting buffer holds continued lines only.
C19_ReplBuffering ==
    [][/\ pc = "prompt" =>
            \/ /\ ~is_continuation
               /\ pc' = "exited"
               /\ fragments' = fragments
            \/ /\ ~is_continuation
               /\ input' = input
               /\ \/ pc' = "aborted" /\ error' = "Error reading file" /\ fragments' = fragments
                  \/ pc' = "compile" /\ fragments' = fragments + 1
            \/ \E line \in TypedLines :
                  LET text == input \o line \o <<NL>>
                  IN  /\ is_continuation \/ line \notin {ExitCmd, LoadCmd}
                      /\ IF line # <<>> /\ line[Len(line)] = BS
                         THEN /\ pc' = "prompt"
                              /\ input' = text
                              /\ is_continuation'
                              /\ fragments' = fragments
                         ELSE IF Trim(text) # <<>>
                         THEN /\ pc' = "compile"
                              /\ input' = text
                              /\ source' = preprocess_input(text)
                              /\ fragments' = fragments + 1
                         ELSE /\ pc' = "prompt"
                              /\ input' = <<>>
                              /\ ~is_continuation'
                              /\ fragments' = fragments
       /\ pc' = "prompt" =>
            /\ is_continuation' = (input' # <<>>)
            /\ \A i \in 1..Len(TextLines(input')) :
                  TextLines(input')[i][Len(TextLines(input')[i])] = BS
       /\ (pc = "exec" /\ pc' = "prompt") => (input' = <<>> /\ ~is_continuation')
       /\ pc # "prompt" => fragments' = fragments
      ]_vars

\* .exit typed after a continued line has been submitted as text of the fragment
C19_Witness ==
    /\ pc = "compile"
    /\ is_continuation
    /\ input = <<"a", BS, NL>> \o ExitCmd \o <<NL>>
    /\ source = <<"a", SP>> \o ExitCmd
    /\ fragments = 1

\* C20: a fragment starts executing with an empty operand stack and instruction
\* pointer 0, whatever the previous fragment left in them, and compiling a
\* fragment changes neither the bindings nor the declared types.
C20_FreshStackPerFragment ==
    [][/\ (pc = "compile" /\ pc' = "exec")
            => /\ stack' = <<>>
               /\ ip' = 0
               /\ variables' = variables
               /\ variable_types' = variable_types
       /\ (pc = "exec" /\ dispatched = <<>>) => (stack = <<>> /\ ip = 0)
      ]_vars

\* the second fragment starts empty although the first, a conditional on true,
\* ended with its condition still on the stack
C20_Witness ==
    /\ pc = "exec"
    /\ fragments = 2
    /\ leftover
    /\ dispatched = <<>>
    /\ stack = <<>>
    /\ ip = 0
    /\ bytecode = <<LoadVar("x"), Show>>
    /\ "x" \in DOMAIN variables
    /\ variables["x"] = Three

\* C21: CheckAssignmentType with fewer than two values on the stack fails with a
\* stack underflow; otherwise it pops the top value only, leaving the new value
\* on top, and fails with a type mismatch exactly when the first StoreVar after
\* it names a variable with a declared type that differs from the runtime type
\* of the new value; neither mapping changes; and the StoreVar that runs right
\* after a passed CheckAssignmentType stores the value.
C21_CheckAssignmentType ==
    [][/\ About("CheckAssignmentType") =>
            /\ variables' = variables
            /\ variable_types' = variable_types
            /\ IF Len(stack) < 2
               THEN /\ pc' = "aborted"
                    /\ error' = "Stack underflow"
                    /\ stack' = <<>>
               ELSE LET new_value == stack[Len(stack) - 1]
                        after == {j \in (ip + 2)..Len(bytecode) : bytecode[j].op = "StoreVar"}
                        first == CHOOSE j \in after : \A k \in after : j <= k
                    IN  /\ stack' = SubSeq(stack, 1, Len(stack) - 1)
                        /\ IF /\ after # {}
                              /\ bytecode[first].name \in DOMAIN variable_types
                              /\ variable_types[bytecode[first].name] # RuntimeType(new_value)
                           THEN pc' = "aborted" /\ error' = "Type mismatch"
                           ELSE pc' = "exec" /\ error' = "none"
       /\ (/\ About("StoreVar")
           /\ ip > 0
           /\ bytecode[ip].op = "CheckAssignmentType"
           /\ dispatched # <<>>
           /\ dispatched[Len(dispatched)] = ip - 1) =>
            /\ pc' = "exec"
            /\ error' = "none"
            /\ variables' = [n \in DOMAIN variables \cup {bytecode[ip + 1].name} |->
                               IF n = bytecode[ip + 1].name THEN stack[Len(stack)]
                               ELSE variables[n]]
      ]_vars

\* the text "hi" assigned to x, declared Whole and holding 3, has been refused
C21_Witness ==
    /\ pc = "aborted"
    /\ error = "Type mismatch"
    /\ bytecode = <<Push(Hi), LoadVar("x"), CheckAssignmentType, StoreVar("x")>>
    /\ ip = 2
    /\ stack = <<Hi>>
    /\ "x" \in DOMAIN variable_types
    /\ variable_types["x"] = "Whole"
    /\ variables["x"] = Three

====
